---- MODULE Spec2Model ----
(***************************************************************************)
(* Model of src/src/utils/math_utils.py (BTC-premia): the SVI evaluator    *)
(* and constraint checker, the finite-difference derivatives, the density  *)
(* normalisation / interpolation and the moment and premium integrals.     *)
(*                                                                         *)
(* Real numbers are exact rationals <<n, d>> (d > 0, lowest terms); a      *)
(* square root is kept symbolically as p + q*sqrt(r) and compared exactly. *)
(* A numpy array is a sequence; a Python exception is a value of result.exc.  *)
(***************************************************************************)
EXTENDS Integers, Sequences, FiniteSets, TLC

VARIABLES
    pc,     \* "idle" | "loop" (inside check_svi_constraints' for loop) | "done"
            \* | "written" (the caller has written into the returned array)
    fn,     \* the function called last
    args,   \* its arguments
    result, \* [exc |-> "none" or the exception raised, val |-> the value returned]
    i,      \* check_svi_constraints: 1-based index of the tau under examination
    alias   \* the argument whose array object the returned value is, or "none"
            \* when the returned value is an object of its own

vars == <<pc, fn, args, result, i, alias>>

----------------------------------------------------------------------------
(* Bounds of the model *)

MaxLen == 3          \* longest density / grid array
MaxTaus == 2         \* longest ttm_values list

----------------------------------------------------------------------------
(* Exact rational arithmetic *)

Abs(n) == IF n < 0 THEN -n ELSE n

RECURSIVE GCD(_, _)
GCD(a, b) == IF b = 0 THEN a ELSE GCD(b, a % b)

Rat(n, d) ==
    IF n = 0 THEN <<0, 1>>
    ELSE IF d < 0 THEN <<(-n) \div GCD(Abs(n), -d), (-d) \div GCD(Abs(n), -d)>>
    ELSE <<n \div GCD(Abs(n), d), d \div GCD(Abs(n), d)>>

RInt(n) == <<n, 1>>
RZero == RInt(0)
ROne == RInt(1)

RAdd(x, y) ==
    IF x[1] = 0 THEN y
    ELSE IF y[1] = 0 THEN x
    ELSE LET g == GCD(x[2], y[2])
         IN  Rat(x[1] * (y[2] \div g) + y[1] * (x[2] \div g), (x[2] \div g) * y[2])
RNeg(x) == <<-x[1], x[2]>>
RSub(x, y) == RAdd(x, RNeg(y))
RMul(x, y) ==
    IF x[1] = 0 \/ y[1] = 0 THEN RZero
    ELSE LET g1 == GCD(Abs(x[1]), y[2])
             g2 == GCD(Abs(y[1]), x[2])
         IN  <<(x[1] \div g1) * (y[1] \div g2), (x[2] \div g2) * (y[2] \div g1)>>
RDiv(x, y) == RMul(x, Rat(y[2], y[1]))          \* y # 0
RLt(x, y) == x[1] * y[2] < y[1] * x[2]
RLe(x, y) == x[1] * y[2] <= y[1] * x[2]
RAbs(x) == <<Abs(x[1]), x[2]>>
RSign(x) == IF x[1] > 0 THEN 1 ELSE IF x[1] < 0 THEN -1 ELSE 0

RECURSIVE RPow(_, _)
RPow(x, n) ==
    IF n = 0 THEN ROne
    ELSE IF n = 1 THEN x
    ELSE RMul(RPow(x, n \div 2), RPow(x, n - n \div 2))

(* The sign of p + q*sqrt(r), r >= 0, decided exactly by squaring. *)
SurdSign(p, q, r) ==
    LET sq == IF r[1] = 0 THEN 0 ELSE RSign(q)      \* sign of q*sqrt(r)
        t == RMul(RMul(q, q), r)                     \* (q*sqrt(r))^2
        pp == RMul(p, p)
    IN  IF sq = 0 THEN RSign(p)
        ELSE IF RSign(p) = 0 \/ RSign(p) = sq THEN sq
        ELSE IF RLt(pp, t) THEN sq
        ELSE IF RLt(t, pp) THEN RSign(p)
        ELSE 0

----------------------------------------------------------------------------
(* numpy arrays *)

Ok(v) == [exc |-> "none", val |-> v]
Raise(e) == [exc |-> e, val |-> <<>>]

SeqsUpTo(S, n) == UNION {[1..k -> S] : k \in 1..n}

RECURSIVE RSum(_)
RSum(s) == IF s = <<>> THEN RZero ELSE RAdd(Head(s), RSum(Tail(s)))

(* numpy broadcasting of two 1-d shapes *)
Broadcastable(n, m) == n = m \/ n = 1 \/ m = 1
BroadcastLen(n, m) == IF n = 1 THEN m ELSE n
At(x, k) == IF Len(x) = 1 THEN x[1] ELSE x[k]

VMul(x, y) == [k \in 1..BroadcastLen(Len(x), Len(y)) |-> RMul(At(x, k), At(y, k))]
VSubScalar(x, c) == [k \in 1..Len(x) |-> RSub(x[k], c)]
VPow(x, n) == [k \in 1..Len(x) |-> RPow(x[k], n)]

(* np.diff(x) and y[1:] + y[:-1] *)
Diff(x) == [k \in 1..(IF Len(x) = 0 THEN 0 ELSE Len(x) - 1) |-> RSub(x[k + 1], x[k])]
PairSums(y) == [k \in 1..(IF Len(y) = 0 THEN 0 ELSE Len(y) - 1) |-> RAdd(y[k + 1], y[k])]

(* np.trapezoid(y, x): (d * (y[1:] + y[:-1]) / 2.0).sum(), d = diff(x); the
   product broadcasts, and raises ValueError when the shapes do not. *)
trapezoid(y, x) ==
    LET d == Diff(x)
        s == PairSums(y)
        prod == VMul(d, s)
    IN  IF ~Broadcastable(Len(d), Len(s)) THEN Raise("ValueError")
        ELSE Ok(RSum([k \in 1..Len(prod) |-> RDiv(prod[k], RInt(2))]))

----------------------------------------------------------------------------
(* normalize_density *)

normalize_density_by_sum(density, returns) ==
    LET integral == trapezoid(density, returns)
    IN  IF integral.exc # "none" THEN integral
        ELSE IF RLt(RZero, integral.val)
             THEN Ok([k \in 1..Len(density) |-> RDiv(density[k], RSum(density))])
             ELSE Ok(density)

normalize_density_times(density, returns) ==
    LET integral == trapezoid(density, returns)
    IN  IF integral.exc # "none" THEN integral
        ELSE IF RLt(RZero, integral.val)
             THEN Ok([k \in 1..Len(density) |-> RMul(density[k], integral.val)])
             ELSE Ok(density)

normalize_density(density, returns) ==
    LET integral == trapezoid(density, returns)
    IN  IF integral.exc # "none" THEN integral
        ELSE IF RLt(RZero, integral.val)
             THEN Ok([k \in 1..Len(density) |-> RDiv(density[k], integral.val)])
             ELSE Ok(density)

(* Which array object normalize_density returns: `density / integral` builds
   a new array, `return density` hands back the argument itself. *)
normalize_density_object(density, returns) ==
    LET integral == trapezoid(density, returns)
    IN  IF integral.exc # "none" THEN "none"
        ELSE IF RLt(RZero, integral.val) THEN "none" ELSE "density"

----------------------------------------------------------------------------
(* IEEE division: x / 0 is inf, -inf or nan (numpy warns, it does not raise);
   they are written <<1, 0>>, <<-1, 0>> and <<0, 0>>. *)

NaN == <<0, 0>>
IsNaN(x) == x = NaN
FDiv(x, y) == IF y[1] = 0 THEN <<RSign(x), 0>> ELSE RDiv(x, y)

----------------------------------------------------------------------------
(* interpolate_density *)

(* scipy's PchipInterpolator._edge_case: the one-sided three-point
   derivative at an end, limited to preserve the shape *)
PchipEdge(h0, h1, m0, m1) ==
    LET d == RDiv(RSub(RMul(RAdd(RMul(RInt(2), h0), h1), m0), RMul(h0, m1)),
                  RAdd(h0, h1))
    IN  IF RSign(d) # RSign(m0) THEN RZero
        ELSE IF RSign(m0) # RSign(m1) /\ RLt(RMul(RInt(3), RAbs(m0)), RAbs(d))
             THEN RMul(RInt(3), m0)
             ELSE d

(* scipy's PchipInterpolator._find_derivatives *)
PchipDerivatives(x, y) ==
    LET n == Len(x)
        hk == Diff(x)
        mk == [k \in 1..(n - 1) |-> RDiv(RSub(y[k + 1], y[k]), hk[k])]
        w1(k) == RAdd(RMul(RInt(2), hk[k]), hk[k - 1])
        w2(k) == RAdd(hk[k], RMul(RInt(2), hk[k - 1]))
        inner(k) ==
            IF RSign(mk[k]) # RSign(mk[k - 1]) \/ mk[k][1] = 0 \/ mk[k - 1][1] = 0
            THEN RZero
            ELSE RDiv(RAdd(w1(k), w2(k)),
                      RAdd(RDiv(w1(k), mk[k - 1]), RDiv(w2(k), mk[k])))
    IN  IF n = 2 THEN <<mk[1], mk[1]>>
        ELSE [k \in 1..n |->
                IF k = 1 THEN PchipEdge(hk[1], hk[2], mk[1], mk[2])
                ELSE IF k = n THEN PchipEdge(hk[n - 1], hk[n - 2], mk[n - 1], mk[n - 2])
                ELSE inner(k)]

(* The grid interval holding v, x[1] <= v <= x[n]: the last j < n with x[j] <= v *)
Interval(x, v) ==
    CHOOSE j \in 1..(Len(x) - 1) :
        /\ RLe(x[j], v)
        /\ \A l \in (j + 1)..(Len(x) - 1) : ~RLe(x[l], v)

(* The interpolant at v: the cubic Hermite polynomial of the interval, and
   nan outside [x[0], x[-1]] (extrapolate=False) *)
PchipValue(x, y, v) ==
    IF RLt(v, x[1]) \/ RLt(x[Len(x)], v) THEN NaN
    ELSE LET j == Interval(x, v)
             dk == PchipDerivatives(x, y)
             h == RSub(x[j + 1], x[j])
             t == RDiv(RSub(v, x[j]), h)
             t2 == RMul(t, t)
             t3 == RMul(t2, t)
             h00 == RAdd(RSub(RMul(RInt(2), t3), RMul(RInt(3), t2)), ROne)
             h10 == RAdd(RSub(t3, RMul(RInt(2), t2)), t)
             h01 == RSub(RMul(RInt(3), t2), RMul(RInt(2), t3))
             h11 == RSub(t3, t2)
         IN  RAdd(RAdd(RMul(h00, y[j]), RMul(RMul(h10, h), dk[j])),
                  RAdd(RMul(h01, y[j + 1]), RMul(RMul(h11, h), dk[j + 1])))

LinearValueClamped(xp, fp, v) ==
    LET n == Len(xp)
    IN  IF RLt(v, xp[1]) THEN fp[1]
        ELSE IF RLt(xp[n], v) THEN fp[n]
        ELSE IF n = 1 \/ xp[n] = v THEN fp[n]
        ELSE LET j == Interval(xp, v)
             IN  IF xp[j] = v THEN fp[j]
                 ELSE RAdd(RMul(RDiv(RSub(fp[j + 1], fp[j]), RSub(xp[j + 1], xp[j])),
                                RSub(v, xp[j])), fp[j])

(* np.interp(v, xp, fp, left=0, right=0) at one point, xp increasing *)
LinearValue(xp, fp, v) ==
    LET n == Len(xp)
    IN  IF RLt(v, xp[1]) THEN RZero                       \* left=0
        ELSE IF RLt(xp[n], v) THEN RZero                  \* right=0
        ELSE IF n = 1 \/ xp[n] = v THEN fp[n]
        ELSE LET j == Interval(xp, v)
             IN  IF xp[j] = v THEN fp[j]
                 ELSE RAdd(RMul(RDiv(RSub(fp[j + 1], fp[j]), RSub(xp[j + 1], xp[j])),
                                RSub(v, xp[j])), fp[j])

(* interpolated[np.isnan(interpolated)] = 0 *)
ZeroFill(a) == [k \in 1..Len(a) |-> IF IsNaN(a[k]) THEN RZero ELSE a[k]]

interpolate_density(returns, density, new_returns, method) ==
    IF method = "pchip"
    THEN IF Len(returns) # Len(density) \/ Len(returns) < 2
         THEN Raise("ValueError")       \* raised by PchipInterpolator(returns, density)
         ELSE Ok(ZeroFill([k \in 1..Len(new_returns) |->
                              PchipValue(returns, density, new_returns[k])]))
    ELSE IF Len(returns) # Len(density)
         THEN Raise("ValueError")       \* raised by np.interp
         ELSE Ok([k \in 1..Len(new_returns) |->
                     LinearValue(returns, density, new_returns[k])])

(* Which array object interpolate_density returns: interp_func(new_returns)
   and np.interp(...) both allocate their output, and the zero-fill writes
   into that output. *)
interpolate_density_object(returns, density, new_returns, method) == "none"

----------------------------------------------------------------------------
(* compute_iv_derivatives, for iv and log_ret of one length n: the index
   expressions iv[2], iv[-3] raise IndexError when n < 3. *)

compute_iv_derivatives(iv, log_ret) ==
    LET n == Len(iv)
        first(k) ==
            IF k = 1 THEN RDiv(RSub(iv[2], iv[1]), RSub(log_ret[2], log_ret[1]))
            ELSE IF k = n
                 THEN RDiv(RSub(iv[n], iv[n - 1]), RSub(log_ret[n], log_ret[n - 1]))
                 ELSE RDiv(RSub(iv[k + 1], iv[k - 1]),
                           RSub(log_ret[k + 1], log_ret[k - 1]))
        second(k) ==
            IF k = 1
            THEN RDiv(RAdd(RSub(iv[3], RMul(RInt(2), iv[2])), iv[1]),
                      RPow(RSub(log_ret[2], log_ret[1]), 2))
            ELSE IF k = n
                 THEN RDiv(RAdd(RSub(iv[n], RMul(RInt(2), iv[n - 1])), iv[n - 2]),
                           RPow(RSub(log_ret[n], log_ret[n - 1]), 2))
                 ELSE RDiv(RAdd(RSub(iv[k + 1], RMul(RInt(2), iv[k])), iv[k - 1]),
                           RPow(RSub(log_ret[k + 1], log_ret[k - 1]), 2))
    IN  IF n < 3 THEN Raise("IndexError")
        ELSE Ok([div_dr |-> [k \in 1..n |-> first(k)],
                 d2iv_dr2 |-> [k \in 1..n |-> second(k)]])

----------------------------------------------------------------------------
(* compute_density_moments, calculate_bitcoin_premium,
   calculate_variance_risk_premium *)

DaysPerYear == 365

(* np.trapezoid(a * b, ret): the product raises ValueError when a and b do
   not broadcast *)
TrapezoidOfProduct(a, b, ret) ==
    IF ~Broadcastable(Len(a), Len(b)) THEN Raise("ValueError")
    ELSE trapezoid(VMul(a, b), ret)

(* np.trapezoid(density * (ret - c)**n, ret) *)
CentralMoment(ret, density, c, n) ==
    TrapezoidOfProduct(density, VPow(VSubScalar(ret, c), n), ret)

compute_density_moments(ret, density, ttm) ==
    LET m1 == TrapezoidOfProduct(density, ret, ret)
        m(n) == CentralMoment(ret, density, m1.val, n).val
        scaling == Rat(DaysPerYear, ttm)
    IN  IF m1.exc # "none" THEN m1
        ELSE IF CentralMoment(ret, density, m1.val, 2).exc # "none"
             THEN CentralMoment(ret, density, m1.val, 2)
        ELSE IF ttm = 0 THEN Raise("ZeroDivisionError")      \* 365 / ttm, ttm an int
        ELSE Ok(<<RMul(m1.val, scaling), RMul(m(2), scaling), RMul(m(3), scaling),
                  RMul(m(4), scaling), RMul(m(5), scaling), RMul(m(6), scaling)>>)

(* (x) * 365 / ttm on a numpy float *)
Annualize(x, ttm) == FDiv(RMul(x, RInt(DaysPerYear)), RInt(ttm))

ExpectedReturnFallbackAlways(ret, q_given, q_density, risk_free_rate, ttm) ==
    Ok(RDiv(RMul(risk_free_rate, RInt(ttm)), RInt(DaysPerYear)))

(* e_q = np.trapezoid(ret * q_density, ret) if q_density is not None
         else risk_free_rate * ttm / 365 *)
ExpectedReturnQ(ret, q_given, q_density, risk_free_rate, ttm) ==
    IF q_given THEN TrapezoidOfProduct(ret, q_density, ret)
    ELSE Ok(RDiv(RMul(risk_free_rate, RInt(ttm)), RInt(DaysPerYear)))

calculate_bitcoin_premium(ret, p_density, q_given, q_density, ttm, risk_free_rate) ==
    LET e_p == TrapezoidOfProduct(ret, p_density, ret)
        e_q == ExpectedReturnQ(ret, q_given, q_density, risk_free_rate, ttm)
    IN  IF e_p.exc # "none" THEN e_p
        ELSE IF e_q.exc # "none" THEN e_q
        ELSE Ok(Annualize(RSub(e_p.val, e_q.val), ttm))

(* np.trapezoid((ret - e)**2 * density, ret) *)
Variance(ret, density, e) == CentralMoment(ret, density, e, 2)

calculate_variance_risk_premium(ret, p_density, q_density, ttm) ==
    LET e_p == TrapezoidOfProduct(ret, p_density, ret)
        e_q == TrapezoidOfProduct(ret, q_density, ret)
        var_p == Variance(ret, p_density, e_p.val)
        var_q == Variance(ret, q_density, e_q.val)
    IN  IF e_p.exc # "none" THEN e_p
        ELSE IF e_q.exc # "none" THEN e_q
        ELSE IF var_p.exc # "none" THEN var_p
        ELSE IF var_q.exc # "none" THEN var_q
        ELSE Ok(Annualize(RSub(var_q.val, var_p.val), ttm))

----------------------------------------------------------------------------
(* svi_model and check_svi_constraints *)

ThetaLen == 10

Slice(s, lo, hi) == [k \in 1..(IF hi < lo THEN 0 ELSE hi - lo + 1) |-> s[lo + k - 1]]
Min(a, b) == IF a < b THEN a ELSE b

(* base_params = np.array(theta[:5]); ttm_coeffs = np.array(theta[5:]);
   a, b, rho, m, sigma = base_params + ttm_coeffs * tau
   The sum broadcasts (ValueError when the shapes cannot); the unpacking
   raises ValueError unless the sum has exactly five entries. *)
EffectiveParams(theta, tau) ==
    LET base_params == Slice(theta, 1, Min(5, Len(theta)))
        ttm_coeffs == Slice(theta, 6, Len(theta))
        scaled == [k \in 1..Len(ttm_coeffs) |-> RMul(ttm_coeffs[k], tau)]
        n == BroadcastLen(Len(base_params), Len(scaled))
    IN  IF ~Broadcastable(Len(base_params), Len(scaled)) THEN Raise("ValueError")
        ELSE IF n # 5 THEN Raise("ValueError")
        ELSE Ok([k \in 1..n |-> RAdd(At(base_params, k), At(scaled, k))])

(* a + b * (rho * (k - m) + np.sqrt((k - m) ** 2 + sigma ** 2)), pointwise:
   the value p + q*sqrt(r) with p = a + b*rho*(k - m), q = b,
   r = (k - m)^2 + sigma^2. *)
SviPoint(e, k) ==
    LET km == RSub(k, e[4])
    IN  [p |-> RAdd(e[1], RMul(e[2], RMul(e[3], km))),
         q |-> e[2],
         r |-> RAdd(RMul(km, km), RMul(e[5], e[5]))]

svi_model(theta, k, tau) ==
    LET e == EffectiveParams(theta, tau)
    IN  IF e.exc # "none" THEN e
        ELSE Ok([j \in 1..Len(k) |-> SviPoint(e.val, k[j])])

(* The four tests of the loop body, in the code's order; TRUE when the
   body executes a `return False`. *)
ViolatesStrictOnly(e) ==
    \/ RLt(e[2], RZero)
    \/ RLe(ROne, RAbs(e[3]))
    \/ RLe(e[5], RZero)
    \/ SurdSign(e[1], RMul(e[2], e[5]), RSub(ROne, RMul(e[3], e[3]))) <= 0

ViolatesNoAbs(e) ==
    \/ RLe(e[2], RZero)
    \/ RLe(ROne, e[3])
    \/ RLe(e[5], RZero)
    \/ SurdSign(e[1], RMul(e[2], e[5]), RSub(ROne, RMul(e[3], e[3]))) <= 0

Violates(e) ==
    \/ RLe(e[2], RZero)                                  \* if b <= 0
    \/ RLe(ROne, RAbs(e[3]))                             \* if abs(rho) >= 1
    \/ RLe(e[5], RZero)                                  \* if sigma <= 0
    \/ SurdSign(e[1], RMul(e[2], e[5]), RSub(ROne, RMul(e[3], e[3]))) <= 0

----------------------------------------------------------------------------
(* Inputs *)

AValues == {RInt(-1), Rat(-7, 8), Rat(1, 2)}
BValues == {Rat(-1, 10), RZero, ROne}
RhoValues == {RInt(-1), RZero, Rat(1, 2)}
SigmaValues == {RZero, ROne}
BSlopes == {RZero, Rat(1, 10)}
RhoSlopes == {RZero, Rat(1, 2)}
SigmaSlopes == {RZero, Rat(-1, 2)}
TauValues == {RInt(1), RInt(2)}

Thetas ==
    {<<a, b, rho, RZero, sigma, RZero, bs, rs, RZero, ss>> :
        a \in AValues, b \in BValues, rho \in RhoValues, sigma \in SigmaValues,
        bs \in BSlopes, rs \in RhoSlopes, ss \in SigmaSlopes}

(* Parameter vectors of every length 0..MaxThetaLen *)
MaxThetaLen == 11
SampleThetas ==
    {t \in Thetas : t[1] = Rat(1, 2) /\ t[3] = RZero /\ t[5] = ROne
                     /\ t[8] = RZero /\ t[10] = RZero}
Resize(t, n) == [k \in 1..n |-> IF k <= Len(t) THEN t[k] ELSE RZero]
ResizedThetas == {Resize(t, n) : t \in SampleThetas, n \in 0..MaxThetaLen}

TauLists == {<<>>} \cup SeqsUpTo(TauValues, MaxTaus)

GridPoints == {-1, 0, 1, 3}
PremiumGridPoints == {-1, 0, 3}
DensityValues == {-1, 0, 2}
PremiumValues == {1, 2}
MomentValues == {0, 1}
IVValues == {0, 1, 4}
TtmValues == {-30, 0, 30}
RateValues == {RZero, Rat(1, 20)}
Methods == {"pchip", "linear"}
Written == RInt(9)      \* the value a caller writes into a returned array

Increasing(s) == \A k \in 1..(Len(s) - 1) : s[k] < s[k + 1]
Ints(s) == [k \in 1..Len(s) |-> RInt(s[k])]

Grids == {Ints(s) : s \in {g \in SeqsUpTo(GridPoints, MaxLen) : Increasing(g)}}
PremiumGrids ==
    {Ints(s) : s \in {g \in SeqsUpTo(PremiumGridPoints, MaxLen) : Increasing(g)}}
Densities == {Ints(s) : s \in SeqsUpTo(DensityValues, MaxLen)}
PremiumDensities == {Ints(s) : s \in SeqsUpTo(PremiumValues, MaxLen)}
MomentDensities == {Ints(s) : s \in SeqsUpTo(MomentValues, MaxLen)}
IVs == {Ints(s) : s \in SeqsUpTo(IVValues, MaxLen)}

(* new_returns: single targets below, inside, on the edges of and above the
   grid, and one list mixing them *)
TargetLists ==
    {<<Rat(n, 2)>> : n \in {-3, 0, 1, 7}}
        \cup {<<RInt(-2), Rat(1, 2), RInt(4)>>}

----------------------------------------------------------------------------
(* The program: one call at a time *)

Init ==
    /\ pc = "idle"
    /\ fn = "none"
    /\ args = <<>>
    /\ result = Ok(<<>>)
    /\ i = 0
    /\ alias = "none"

SviModel ==
    \E theta \in ResizedThetas, k \in Grids, tau \in TauValues :
        /\ pc = "idle"
        /\ pc' = "done"
        /\ fn' = "svi_model"
        /\ args' = [theta |-> theta, k |-> k, tau |-> tau]
        /\ result' = svi_model(theta, k, tau)
        /\ i' = 0
        /\ alias' = "none"

(* check_svi_constraints: the call, one pass of the for loop, the final
   `return True`. *)
CheckCall ==
    \E theta \in Thetas \cup ResizedThetas, ttm_values \in TauLists :
        /\ pc = "idle"
        /\ pc' = "loop"
        /\ fn' = "check_svi_constraints"
        /\ args' = [theta |-> theta, ttm_values |-> ttm_values]
        /\ result' = Ok(<<>>)
        /\ i' = 1
        /\ alias' = "none"

CheckIter ==
    /\ pc = "loop"
    /\ i <= Len(args.ttm_values)
    /\ LET e == EffectiveParams(args.theta, args.ttm_values[i])
       IN  IF e.exc # "none"
           THEN pc' = "done" /\ result' = e /\ i' = i
           ELSE IF Violates(e.val)
                THEN pc' = "done" /\ result' = Ok(FALSE) /\ i' = i
                ELSE pc' = pc /\ result' = result /\ i' = i + 1
    /\ UNCHANGED <<fn, args, alias>>

CheckReturn ==
    /\ pc = "loop"
    /\ i > Len(args.ttm_values)
    /\ pc' = "done"
    /\ result' = Ok(TRUE)
    /\ UNCHANGED <<fn, args, i, alias>>

NormalizeDensity ==
    \E density \in Densities, returns \in Grids :
        /\ pc = "idle"
        /\ pc' = "done"
        /\ fn' = "normalize_density"
        /\ args' = [density |-> density, returns |-> returns]
        /\ result' = normalize_density(density, returns)
        /\ i' = 0
        /\ alias' = normalize_density_object(density, returns)

ComputeIvDerivatives ==
    \E iv \in IVs, log_ret \in Grids :
        /\ Len(iv) = Len(log_ret)
        /\ pc = "idle"
        /\ pc' = "done"
        /\ fn' = "compute_iv_derivatives"
        /\ args' = [iv |-> iv, log_ret |-> log_ret]
        /\ result' = compute_iv_derivatives(iv, log_ret)
        /\ i' = 0
        /\ alias' = "none"

ComputeDensityMoments ==
    \E r \in Grids, density \in MomentDensities, ttm \in TtmValues :
        /\ pc = "idle"
        /\ pc' = "done"
        /\ fn' = "compute_density_moments"
        /\ args' = [ret |-> r, density |-> density, ttm |-> ttm]
        /\ result' = compute_density_moments(r, density, ttm)
        /\ i' = 0
        /\ alias' = "none"

InterpolateDensity ==
    \E returns \in Grids, density \in Densities, new_returns \in TargetLists,
       method \in Methods :
        /\ pc = "idle"
        /\ pc' = "done"
        /\ fn' = "interpolate_density"
        /\ args' = [returns |-> returns, density |-> density,
                    new_returns |-> new_returns, method |-> method]
        /\ result' = interpolate_density(returns, density, new_returns, method)
        /\ i' = 0
        /\ alias' = interpolate_density_object(returns, density, new_returns, method)

(* The caller writes into the array it got back (out[k] = Written).  When the
   returned object is the argument `density` itself, that write is a write
   to the caller's input. *)
WriteResult ==
    /\ pc = "done"
    /\ fn \in {"normalize_density", "interpolate_density"}
    /\ result.exc = "none"
    /\ \E k \in 1..Len(result.val) :
        LET out == [result.val EXCEPT ![k] = Written]
        IN  /\ result' = Ok(out)
            /\ args' = IF alias = "density"
                       THEN [args EXCEPT !.density = out]
                       ELSE args
    /\ pc' = "written"
    /\ UNCHANGED <<fn, i, alias>>

(* The P and Q densities of one call have the same length; the grid ret is
   drawn independently, so its length may differ from theirs. *)
CalculateBitcoinPremium ==
    \E r \in PremiumGrids, p_density \in PremiumDensities, ttm \in TtmValues :
      \E q_density \in {q \in PremiumDensities : Len(q) = Len(p_density)} \cup {<<>>} :
        \E risk_free_rate \in (IF q_density = <<>> THEN RateValues ELSE {RZero}) :
            /\ pc = "idle"
            /\ pc' = "done"
            /\ fn' = "calculate_bitcoin_premium"
            /\ args' = [ret |-> r, p_density |-> p_density,
                        q_given |-> q_density # <<>>, q_density |-> q_density,
                        ttm |-> ttm, risk_free_rate |-> risk_free_rate]
            /\ result' = calculate_bitcoin_premium(r, p_density, q_density # <<>>,
                                                   q_density, ttm, risk_free_rate)
            /\ i' = 0
            /\ alias' = "none"

CalculateVarianceRiskPremium ==
    \E r \in PremiumGrids, p_density \in PremiumDensities, ttm \in TtmValues :
      \E q_density \in {q \in PremiumDensities : Len(q) = Len(p_density)} :
        /\ pc = "idle"
        /\ pc' = "done"
        /\ fn' = "calculate_variance_risk_premium"
        /\ args' = [ret |-> r, p_density |-> p_density, q_density |-> q_density,
                    ttm |-> ttm]
        /\ result' = calculate_variance_risk_premium(r, p_density, q_density, ttm)
        /\ i' = 0
        /\ alias' = "none"

SviNext ==
    \/ SviModel
    \/ CheckCall
    \/ CheckIter
    \/ CheckReturn

DensityNext ==
    \/ NormalizeDensity
    \/ InterpolateDensity
    \/ WriteResult

PremiaNext ==
    \/ ComputeDensityMoments
    \/ CalculateBitcoinPremium
    \/ CalculateVarianceRiskPremium

Next ==
    \/ SviNext
    \/ ComputeIvDerivatives
    \/ DensityNext
    \/ PremiaNext

(* Every function of the module *)
Spec == Init /\ [][Next]_vars

(* The SVI evaluator and constraint checker *)
SviSpec == Init /\ [][SviNext]_vars

(* The finite-difference derivatives *)
DerivativeSpec == Init /\ [][ComputeIvDerivatives]_vars

(* Density normalisation and interpolation *)
DensitySpec == Init /\ [][DensityNext]_vars

(* Moments and premia *)
PremiaSpec == Init /\ [][PremiaNext]_vars

----------------------------------------------------------------------------
(* Properties of check_svi_constraints and svi_model *)

CheckDone == fn = "check_svi_constraints" /\ pc = "done"

(* The effective parameters base + slope*tau of a well-formed vector *)
EffAt(theta, tau) == [k \in 1..5 |-> RAdd(theta[k], RMul(theta[k + 5], tau))]

AllFour(e) ==
    /\ RLt(RZero, e[2])
    /\ RLt(RAbs(e[3]), ROne)
    /\ RLt(RZero, e[5])
    /\ SurdSign(e[1], RMul(e[2], e[5]), RSub(ROne, RMul(e[3], e[3]))) = 1

BadTaus == {j \in 1..Len(args.ttm_values) : ~AllFour(EffAt(args.theta, args.ttm_values[j]))}

(* C1: for a 10-entry theta, check_svi_constraints returns true if and only
   if every tau of ttm_values satisfies b > 0, |rho| < 1, sigma > 0 and
   a + b*sigma*sqrt(1 - rho^2) > 0 at the effective parameters, and it
   returns false at the first tau that violates one of them, without
   examining any later tau. *)
C1_ConstraintsIff ==
    (CheckDone /\ Len(args.theta) = ThetaLen) =>
        /\ result.exc = "none"
        /\ result.val = (BadTaus = {})
        /\ BadTaus # {} => (i \in BadTaus /\ \A j \in BadTaus : i <= j)
        /\ result.val = TRUE =>
              \A j \in 1..Len(args.ttm_values) :
                  LET e == EffAt(args.theta, args.ttm_values[j])
                  IN  SurdSign(e[1], RMul(e[2], e[5]), RSub(ROne, RMul(e[3], e[3]))) = 1

(* C1 witness: a two-tau check that returns true although a < 0, and so
   rests on the square-root condition. *)
C1_Witness ==
    /\ CheckDone /\ Len(args.theta) = ThetaLen
    /\ result.val = TRUE
    /\ Len(args.ttm_values) >= 2
    /\ RLt(args.theta[1], RZero)

BaseOthersValid(theta) ==
    /\ RLt(RAbs(theta[3]), ROne)
    /\ RLt(RZero, theta[5])

(* C2 as stated: a theta with base b = -0.1 and otherwise valid entries
   makes check_svi_constraints return false for any ttm_values. *)
C2_Original ==
    (CheckDone /\ Len(args.theta) = ThetaLen /\ args.theta[2] = Rat(-1, 10)
        /\ BaseOthersValid(args.theta))
    => (result.exc = "none" /\ result.val = FALSE)

(* C2 amended: a theta with base b = -0.1 makes check_svi_constraints return
   false whenever ttm_values holds at least one tau at which the effective
   b = -0.1 + b_ttm*tau is still <= 0. *)
C2_NegativeBRejected ==
    (CheckDone /\ Len(args.theta) = ThetaLen /\ args.theta[2] = Rat(-1, 10)
        /\ \E j \in 1..Len(args.ttm_values) :
               RLe(EffAt(args.theta, args.ttm_values[j])[2], RZero))
    => (result.exc = "none" /\ result.val = FALSE)

(* C2 witness: base b = -0.1 with a positive slope; the first tau lifts the
   effective b above 0 and passes, the second leaves it at 0 and is rejected. *)
C2_Witness ==
    /\ CheckDone /\ Len(args.theta) = ThetaLen
    /\ args.theta[2] = Rat(-1, 10)
    /\ result.val = FALSE
    /\ i = 2
    /\ RLt(RZero, EffAt(args.theta, args.ttm_values[1])[2])
    /\ RLe(EffAt(args.theta, args.ttm_values[2])[2], RZero)

(* C3: svi_model and check_svi_constraints fail with an error for every
   parameter vector whose length is not 10. *)
C3_WrongLengthRaises ==
    (pc = "done" /\ fn \in {"svi_model", "check_svi_constraints"}
        /\ Len(args.theta) # ThetaLen)
    => result.exc # "none"

----------------------------------------------------------------------------
(* Properties of the grid functions *)

Done(f) == pc = "done" /\ fn = f

(* C4: every operation on paired arrays fails with an error when the paired
   arrays differ in length. *)
C4_MismatchRaises ==
    (\/ /\ pc = "done" /\ fn \in {"normalize_density", "interpolate_density"}
        /\ Len(args.returns) # Len(args.density)
     \/ /\ Done("calculate_bitcoin_premium")
        /\ \/ Len(args.p_density) # Len(args.ret)
           \/ args.q_given /\ Len(args.q_density) # Len(args.ret)
     \/ /\ Done("calculate_variance_risk_premium")
        /\ \/ Len(args.p_density) # Len(args.ret)
           \/ Len(args.q_density) # Len(args.ret))
    => result.exc # "none"

PremiaFunctions ==
    {"compute_density_moments", "calculate_bitcoin_premium",
     "calculate_variance_risk_premium"}

(* C5: compute_density_moments, calculate_bitcoin_premium and
   calculate_variance_risk_premium fail with an error when ttm <= 0. *)
C5_NonPositiveTtmRaises ==
    (pc = "done" /\ fn \in PremiaFunctions /\ args.ttm <= 0) => result.exc # "none"

(* The trapezoidal integral of d over the grid r, Len(d) = Len(r) *)
RECURSIVE TrapArea(_, _, _)
TrapArea(d, r, k) ==
    IF k >= Len(r) THEN RZero
    ELSE RAdd(RDiv(RMul(RSub(r[k + 1], r[k]), RAdd(d[k], d[k + 1])), RInt(2)),
              TrapArea(d, r, k + 1))

Paired(a, b) == Len(a) = Len(b)

(* C6: normalize_density on a density paired with its grid, I the
   trapezoidal integral: if I > 0 every output value is the input value times
   1/I and the output integrates to 1; if I <= 0 the output is the input. *)
C6_NormalizeScales ==
    (Done("normalize_density") /\ Paired(args.density, args.returns)) =>
        LET I == TrapArea(args.density, args.returns, 1)
        IN  /\ result.exc = "none"
            /\ Len(result.val) = Len(args.density)
            /\ RLt(RZero, I) =>
                 /\ \A k \in 1..Len(args.density) :
                        result.val[k] = RMul(args.density[k], RDiv(ROne, I))
                 /\ TrapArea(result.val, args.returns, 1) = ROne
            /\ RLe(I, RZero) => result.val = args.density

(* C6 witness: a three-point density with a positive integral other than 1,
   so that the output differs from the input. *)
C6_Witness ==
    /\ Done("normalize_density") /\ Paired(args.density, args.returns)
    /\ Len(args.density) >= 3
    /\ RLt(RZero, TrapArea(args.density, args.returns, 1))
    /\ result.val # args.density

(* C7: normalize_density is idempotent: when the integral of d over r is
   > 0, normalising the normalised density again returns it unchanged. *)
C7_NormalizeIdempotent ==
    (Done("normalize_density") /\ Paired(args.density, args.returns)
        /\ RLt(RZero, TrapArea(args.density, args.returns, 1)))
    => normalize_density(result.val, args.returns) = result

(* C7 witness: a first normalisation that changed the density (its integral
   was positive and not 1). *)
C7_Witness ==
    /\ Done("normalize_density") /\ Paired(args.density, args.returns)
    /\ RLt(RZero, TrapArea(args.density, args.returns, 1))
    /\ TrapArea(args.density, args.returns, 1) # ROne
    /\ Len(args.density) >= 2

RECURSIVE RMinOf(_)
RMinOf(s) ==
    IF Len(s) = 1 THEN s[1]
    ELSE LET m == RMinOf(Tail(s)) IN IF RLt(s[1], m) THEN s[1] ELSE m

RECURSIVE RMaxOf(_)
RMaxOf(s) ==
    IF Len(s) = 1 THEN s[1]
    ELSE LET m == RMaxOf(Tail(s)) IN IF RLt(m, s[1]) THEN s[1] ELSE m

Outside(v, grid) == RLt(v, RMinOf(grid)) \/ RLt(RMaxOf(grid), v)

(* C8: for both methods, every entry of interpolate_density's output whose
   target lies outside [min(returns), max(returns)] is exactly 0. *)
C8_OutsideIsZero ==
    (Done("interpolate_density") /\ result.exc = "none") =>
        /\ Len(result.val) = Len(args.new_returns)
        /\ \A k \in 1..Len(args.new_returns) :
               Outside(args.new_returns[k], args.returns) => result.val[k] = RZero

(* C8 witness: targets below and above a grid whose edge densities are both
   non-zero, zeroed in the same output that holds a non-zero interior value. *)
C8_Witness ==
    /\ Done("interpolate_density") /\ result.exc = "none"
    /\ args.density[1] # RZero
    /\ args.density[Len(args.density)] # RZero
    /\ Len(args.new_returns) = 3
    /\ Outside(args.new_returns[1], args.returns)
    /\ Outside(args.new_returns[3], args.returns)
    /\ result.val[1] = RZero /\ result.val[3] = RZero
    /\ result.val[2] # RZero

SameDensity ==
    \/ /\ Done("calculate_bitcoin_premium")
       /\ args.q_given /\ args.q_density = args.p_density
    \/ /\ Done("calculate_variance_risk_premium")
       /\ args.q_density = args.p_density

(* C9: with one density d, paired with ret, passed as both P and Q and
   ttm > 0, calculate_bitcoin_premium and calculate_variance_risk_premium
   return 0. *)
C9_PremiumSymmetry ==
    (SameDensity /\ Paired(args.p_density, args.ret) /\ args.ttm > 0)
    => result = Ok(RZero)

(* C9 witness: a bitcoin premium of 0 for identical densities whose expected
   return is not 0. *)
C9_Witness ==
    /\ SameDensity /\ Paired(args.p_density, args.ret) /\ args.ttm > 0
    /\ fn = "calculate_bitcoin_premium"
    /\ Len(args.ret) >= 3
    /\ TrapArea(VMul(args.ret, args.p_density), args.ret, 1) # RZero
    /\ result = Ok(RZero)

Uniform(grid) ==
    \A k \in 2..(Len(grid) - 1) :
        RSub(grid[k + 1], grid[k]) = RSub(grid[k], grid[k - 1])

(* C10: on a uniformly spaced grid with spacing D, compute_iv_derivatives
   returns at every interior index the second derivative
   (iv[i+1] - 2*iv[i] + iv[i-1]) / D^2, the denominator of the edge stencils. *)
C10_InteriorSecondDerivative ==
    (Done("compute_iv_derivatives") /\ result.exc = "none" /\ Uniform(args.log_ret)) =>
        LET D == RSub(args.log_ret[2], args.log_ret[1])
            iv == args.iv
        IN  \A k \in 2..(Len(iv) - 1) :
                result.val.d2iv_dr2[k] =
                    RDiv(RAdd(RSub(iv[k + 1], RMul(RInt(2), iv[k])), iv[k - 1]),
                         RMul(D, D))

----------------------------------------------------------------------------
(* Object identity of the arrays returned by normalize_density and
   interpolate_density *)

(* The returned array is an object of its own, distinct from every argument *)
ReturnsNewInstance ==
    (pc = "done" /\ fn \in {"normalize_density", "interpolate_density"}
        /\ result.exc = "none") => alias = "none"

(* C11: normalize_density and interpolate_density hand back a new array in
   every branch, so no step taken after the call has returned (an in-place
   write to the result) changes the arrays the caller passed in. *)
C11_InputsNeverChange == [][pc = "done" => args' = args]_vars

====
